---- MODULE Spec2Model ----
(***************************************************************************)
(* Model of the calorie calculator: the three functions of                 *)
(* client/src/lib/calorie-calculator.ts and the Home page of               *)
(* client/src/pages/home.tsx (zod schema, react-hook-form submit, the two  *)
(* useState cells and the results section).                                *)
(*                                                                         *)
(* JS numbers are modelled in fixed point: a number is a record            *)
(* [t |-> "number", v |-> n] standing for n / Scale, NaN is                *)
(* [t |-> "nan"] and a missing value is [t |-> "undefined"].  On the       *)
(* values the model draws (at most three decimals) every product and sum   *)
(* of the code is exact in this representation up to a truncation below    *)
(* 1/Scale, which Math.round cannot see.                                   *)
(***************************************************************************)
EXTENDS Integers, Sequences, FiniteSets, TLC

VARIABLES
    gender,             \* form value "gender"
    age,                \* form value "age"     (valueAsNumber)
    weight,             \* form value "weight"  (valueAsNumber)
    height,             \* form value "height"  (valueAsNumber)
    activityLevel,      \* form value "activityLevel"
    errors,             \* form.formState.errors, one message per field ("" = none)
    isSubmitted,        \* form.formState.isSubmitted
    showResults,        \* useState(false)
    calculationResult,  \* useState<CalculationResult | null>(null): <<>> is null
    call,               \* a call under observation: the function and its arguments
    ret                 \* what that call returned

vars == <<gender, age, weight, height, activityLevel, errors, isSubmitted,
          showResults, calculationResult, call, ret>>

formVars == <<gender, age, weight, height, activityLevel>>

-----------------------------------------------------------------------------
(* Bounds of the model *)

\* how far (in tenths, and in whole units) the sampled numbers reach on each
\* side of a limit of a range
Margin == 1

\* longest string generated over Alphabet
MaxStrLen == 3

-----------------------------------------------------------------------------
(* JS values *)

Scale == 1000

Num(n) == [t |-> "number", v |-> n]
NaN == [t |-> "nan", v |-> 0]
UndefinedNumber == [t |-> "undefined", v |-> 0]

\* n whole units, n tenths
Units(n) == Num(n * Scale)
Tenths(n) == Num(n * (Scale \div 10))

Str(s) == [t |-> "string", s |-> s]
Undefined == [t |-> "undefined", s |-> ""]

\* strings that are scanned character by character are sequences of characters
Chars(cs) == [t |-> "string", s |-> cs]
UndefinedChars == [t |-> "undefined", s |-> <<>>]

\* a * b, a - b, a + b of JS numbers: NaN is contagious
Times(a, b) ==
    IF a.t = "number" /\ b.t = "number"
    THEN Num((a.v \div Scale) * b.v + ((a.v % Scale) * b.v) \div Scale)
    ELSE NaN

Plus(a, b) == IF a.t = "number" /\ b.t = "number" THEN Num(a.v + b.v) ELSE NaN

Minus(a, b) == IF a.t = "number" /\ b.t = "number" THEN Num(a.v - b.v) ELSE NaN

\* Math.floor, which the code does not use: the variants below round with it
MathFloor(x) ==
    IF x.t = "number" THEN Num((x.v \div Scale) * Scale) ELSE NaN

\* variant of MathRound: a tie goes to the even neighbour
MathRoundHalfEven(x) ==
    IF x.t # "number" THEN NaN
    ELSE IF x.v % Scale = Scale \div 2 /\ (x.v \div Scale) % 2 = 0
         THEN Num((x.v \div Scale) * Scale)
         ELSE Num(((x.v + Scale \div 2) \div Scale) * Scale)

\* Math.round: the nearest integer, a tie going towards +Infinity; NaN stays NaN
MathRound(x) ==
    IF x.t = "number" THEN Num(((x.v + Scale \div 2) \div Scale) * Scale) ELSE NaN

-----------------------------------------------------------------------------
(* parseFloat *)

DigitValue ==
    [c \in {"0", "1", "2", "3", "4", "5", "6", "7", "8", "9"} |->
        CASE c = "0" -> 0 [] c = "1" -> 1 [] c = "2" -> 2 [] c = "3" -> 3
          [] c = "4" -> 4 [] c = "5" -> 5 [] c = "6" -> 6 [] c = "7" -> 7
          [] c = "8" -> 8 [] c = "9" -> 9]

IsDigit(c) == c \in DOMAIN DigitValue

\* index of the first character at or after i that is not white space
RECURSIVE SkipWhiteSpace(_, _)
SkipWhiteSpace(s, i) ==
    IF i <= Len(s) /\ s[i] = " " THEN SkipWhiteSpace(s, i + 1) ELSE i

\* index of the first character at or after i that is not a digit
RECURSIVE ScanDigits(_, _)
ScanDigits(s, i) ==
    IF i <= Len(s) /\ IsDigit(s[i]) THEN ScanDigits(s, i + 1) ELSE i

\* the decimal number written by the digits s[i .. j-1]
RECURSIVE DigitsValue(_, _, _)
DigitsValue(s, i, j) ==
    IF j <= i THEN 0 ELSE DigitsValue(s, i, j - 1) * 10 + DigitValue[s[j - 1]]

\* the digit at position k of the fraction that starts at index i and ends before j
FractionDigit(s, i, j, k) == IF i + k < j THEN DigitValue[s[i + k]] ELSE 0

\* parseFloat(s): the longest prefix of the trimmed string that is a decimal
\* literal (sign, digits, point, digits), NaN when there is none
parseFloat(s) ==
    LET start    == SkipWhiteSpace(s, 1)
        negative == start <= Len(s) /\ s[start] = "-"
        signed   == start <= Len(s) /\ s[start] \in {"-", "+"}
        intFrom  == IF signed THEN start + 1 ELSE start
        intTo    == ScanDigits(s, intFrom)
        hasPoint == intTo <= Len(s) /\ s[intTo] = "."
        fracFrom == intTo + 1
        fracTo   == IF hasPoint THEN ScanDigits(s, fracFrom) ELSE fracFrom
        nDigits  == (intTo - intFrom) + (fracTo - fracFrom)
        magnitude ==
            DigitsValue(s, intFrom, intTo) * Scale
              + FractionDigit(s, fracFrom, fracTo, 0) * (Scale \div 10)
              + FractionDigit(s, fracFrom, fracTo, 1) * (Scale \div 100)
              + FractionDigit(s, fracFrom, fracTo, 2) * (Scale \div 1000)
    IN  IF nDigits = 0 THEN NaN
        ELSE Num(IF negative THEN 0 - magnitude ELSE magnitude)

-----------------------------------------------------------------------------
(* client/src/lib/calorie-calculator.ts *)

\* variant of calculateBMR: the male formula for every sex
calculateBMRFemaleOffsetPlus(sex, weightKg, heightCm, ageYears) ==
    MathRound(Plus(Minus(Plus(Times(Units(10), weightKg), Times(Num(6250), heightCm)),
                         Times(Units(5), ageYears)),
                   Units(5)))

\* variant of calculateBMR: Math.floor in place of Math.round
calculateBMRFloor(sex, weightKg, heightCm, ageYears) ==
    LET base == Minus(Plus(Times(Units(10), weightKg), Times(Num(6250), heightCm)),
                      Times(Units(5), ageYears))
    IN  MathFloor(IF sex = "male" THEN Plus(base, Units(5))
                                      ELSE Minus(base, Units(161)))

\* Mifflin-St Jeor: the first branch for "male", the else branch for every
\* other string
calculateBMR(sex, weightKg, heightCm, ageYears) ==
    LET bmr ==
          IF sex = "male"
          THEN Plus(Minus(Plus(Times(Units(10), weightKg), Times(Num(6250), heightCm)),
                          Times(Units(5), ageYears)),
                    Units(5))
          ELSE Minus(Minus(Plus(Times(Units(10), weightKg), Times(Num(6250), heightCm)),
                           Times(Units(5), ageYears)),
                     Units(161))
    IN  MathRound(bmr)

\* variant of calculateDailyCalories: Math.floor in place of Math.round
calculateDailyCaloriesFloor(bmr, activityMultiplier) ==
    MathFloor(Times(bmr, activityMultiplier))

calculateDailyCalories(bmr, activityMultiplier) ==
    MathRound(Times(bmr, activityMultiplier))

\* the own properties of the object literal `descriptions`
descriptions ==
    (<<"1", ".", "2">>           :> "Sedentary lifestyle") @@
    (<<"1", ".", "3", "7", "5">> :> "Lightly active") @@
    (<<"1", ".", "5", "5">>      :> "Moderately active") @@
    (<<"1", ".", "7", "2", "5">> :> "Very active") @@
    (<<"1", ".", "9">>           :> "Super active")

\* properties every object literal inherits from Object.prototype (those
\* the sampled keys can name); their values are functions, not strings
ObjectPrototype ==
    (<<"c", "o", "n", "s", "t", "r", "u", "c", "t", "o", "r">> :> "Object") @@
    (<<"t", "o", "S", "t", "r", "i", "n", "g">>                :> "toString") @@
    (<<"v", "a", "l", "u", "e", "O", "f">>                     :> "valueOf")

\* descriptions[key]: an own property, else an inherited one, else undefined
GetProperty(key) ==
    IF key \in DOMAIN descriptions THEN Str(descriptions[key])
    ELSE IF key \in DOMAIN ObjectPrototype
         THEN [t |-> "function", s |-> ObjectPrototype[key]]
         ELSE Undefined

\* x is truthy: undefined and "" are not, functions and other strings are
Truthy(x) == x.t = "function" \/ (x.t = "string" /\ x.s # "")

getActivityDescription(level) ==
    IF Truthy(GetProperty(level)) THEN GetProperty(level)
    ELSE Str("Unknown activity level")

-----------------------------------------------------------------------------
(* client/src/pages/home.tsx: calorieFormSchema *)

AgeMin == 16
AgeMax == 100
WeightMin == 30
WeightMax == 300
HeightMin == 120
HeightMax == 250

Fields == {"gender", "age", "weight", "height", "activityLevel"}

\* variant of GenderIssue: z.string in place of z.enum
GenderIssueAny(g) ==
    IF g.t = "undefined" THEN "Please select your gender" ELSE ""

\* z.enum(["male", "female"], {required_error})
GenderIssue(g) ==
    IF g.t = "undefined" THEN "Please select your gender"
    ELSE IF g.s \in {"male", "female"} THEN ""
    ELSE "Invalid enum value"

\* variant of AgeIssue: the lower limit itself is refused
AgeIssueExclusive(x) ==
    IF x.t = "undefined" THEN "Age is required"
    ELSE IF x.t = "nan" THEN "Age must be a number"
    ELSE IF x.v <= AgeMin * Scale THEN "Age must be at least 16"
    ELSE IF x.v > AgeMax * Scale THEN "Age must be at most 100"
    ELSE ""

\* z.number({required_error, invalid_type_error}).min(16, ..).max(100, ..)
AgeIssue(x) ==
    IF x.t = "undefined" THEN "Age is required"
    ELSE IF x.t = "nan" THEN "Age must be a number"
    ELSE IF x.v < AgeMin * Scale THEN "Age must be at least 16"
    ELSE IF x.v > AgeMax * Scale THEN "Age must be at most 100"
    ELSE ""

\* z.number({required_error, invalid_type_error}).min(30, ..).max(300, ..)
WeightIssue(x) ==
    IF x.t = "undefined" THEN "Weight is required"
    ELSE IF x.t = "nan" THEN "Weight must be a number"
    ELSE IF x.v < WeightMin * Scale THEN "Weight must be at least 30 kg"
    ELSE IF x.v > WeightMax * Scale THEN "Weight must be at most 300 kg"
    ELSE ""

\* z.number({required_error, invalid_type_error}).min(120, ..).max(250, ..)
HeightIssue(x) ==
    IF x.t = "undefined" THEN "Height is required"
    ELSE IF x.t = "nan" THEN "Height must be a number"
    ELSE IF x.v < HeightMin * Scale THEN "Height must be at least 120 cm"
    ELSE IF x.v > HeightMax * Scale THEN "Height must be at most 250 cm"
    ELSE ""

\* z.string({required_error}): every string passes
ActivityLevelIssue(a) ==
    IF a.t = "undefined" THEN "Please select your activity level" ELSE ""

\* zodResolver(calorieFormSchema): every field is parsed, the first issue of
\* each field is its error
calorieFormSchema(data) ==
    [gender        |-> GenderIssue(data.gender),
     age           |-> AgeIssue(data.age),
     weight        |-> WeightIssue(data.weight),
     height        |-> HeightIssue(data.height),
     activityLevel |-> ActivityLevelIssue(data.activityLevel)]

NoErrors == [f \in Fields |-> ""]

-----------------------------------------------------------------------------
(* client/src/pages/home.tsx: Home *)

\* the value a number input holds while it is empty (valueAsNumber of "")
Empty == NaN

formData ==
    [gender |-> gender, age |-> age, weight |-> weight, height |-> height,
     activityLevel |-> activityLevel]

\* variant of onSubmit: a result once computed is kept and handed out again
onSubmitCached(data) ==
    IF calculationResult # <<>> THEN calculationResult[1]
    ELSE LET bmr == calculateBMR(data.gender.s, data.weight, data.height, data.age)
         IN  [bmr                 |-> bmr,
              dailyCalories       |->
                  calculateDailyCalories(bmr, parseFloat(data.activityLevel.s)),
              activityMultiplier  |-> parseFloat(data.activityLevel.s),
              activityDescription |-> getActivityDescription(data.activityLevel.s),
              formula             |->
                  IF data.gender.s = "male"
                  THEN "BMR = (10 x weight) + (6.25 x height) - (5 x age) + 5"
                  ELSE "BMR = (10 x weight) + (6.25 x height) - (5 x age) - 161"]

\* the record onSubmit passes to setCalculationResult
onSubmit(data) ==
    LET bmr                 == calculateBMR(data.gender.s, data.weight, data.height, data.age)
        activityMultiplier  == parseFloat(data.activityLevel.s)
        dailyCalories       == calculateDailyCalories(bmr, activityMultiplier)
        activityDescription == getActivityDescription(data.activityLevel.s)
        formula ==
            IF data.gender.s = "male"
            THEN "BMR = (10 x weight) + (6.25 x height) - (5 x age) + 5"
            ELSE "BMR = (10 x weight) + (6.25 x height) - (5 x age) - 161"
    IN  [bmr                 |-> bmr,
         dailyCalories       |-> dailyCalories,
         activityMultiplier  |-> activityMultiplier,
         activityDescription |-> activityDescription,
         formula             |-> formula]

\* form.handleSubmit(onSubmit): the resolver runs on the form values; with
\* no error onSubmit runs, else the errors are stored and onSubmit does not run
handleSubmit ==
    LET issues == calorieFormSchema(formData)
    IN  /\ isSubmitted' = TRUE
        /\ errors' = issues
        /\ IF issues = NoErrors
           THEN /\ calculationResult' = <<onSubmit(formData)>>
                /\ showResults' = TRUE
           ELSE UNCHANGED <<showResults, calculationResult>>
        /\ UNCHANGED formVars

Submit == handleSubmit /\ UNCHANGED <<call, ret>>

\* variant of resetCalculator: setCalculationResult(null) is left out
resetCalculatorKeepsResult ==
    /\ gender' = Str("male")
    /\ age' = Empty
    /\ weight' = Empty
    /\ height' = Empty
    /\ activityLevel' = UndefinedChars
    /\ errors' = NoErrors
    /\ isSubmitted' = FALSE
    /\ showResults' = FALSE
    /\ UNCHANGED <<calculationResult, call, ret>>

resetCalculator ==
    /\ gender' = Str("male")
    /\ age' = Empty
    /\ weight' = Empty
    /\ height' = Empty
    /\ activityLevel' = UndefinedChars
    /\ errors' = NoErrors
    /\ isSubmitted' = FALSE
    /\ showResults' = FALSE
    /\ calculationResult' = <<>>
    /\ UNCHANGED <<call, ret>>

\* the results section is rendered: showResults && calculationResult
ResultsShown == showResults /\ calculationResult # <<>>

\* a registered input changes: after a submit the field is validated again
\* (reValidateMode "onChange"), before the first submit it is not
Revalidated(field, issue) ==
    IF isSubmitted THEN [errors EXCEPT ![field] = issue] ELSE errors

\* what the page's widgets can enter
PageGenders == {"male", "female"}
PageAges == {Empty, Units(10), Units(25), Units(30)}
PageWeights == {Empty, Units(10), Units(60), Units(70)}
PageHeights == {Empty, Units(165), Units(175), Units(500)}
PageActivityLevels == DOMAIN descriptions

\* RadioGroup onValueChange: form.setValue("gender", value)
SelectGender ==
    \E v \in PageGenders :
        /\ gender' = Str(v)
        /\ UNCHANGED <<age, weight, height, activityLevel, errors, isSubmitted,
                       showResults, calculationResult, call, ret>>

\* form.register("age", {valueAsNumber: true})
TypeAge ==
    \E x \in PageAges :
        /\ age' = x
        /\ errors' = Revalidated("age", AgeIssue(x))
        /\ UNCHANGED <<gender, weight, height, activityLevel, isSubmitted,
                       showResults, calculationResult, call, ret>>

\* form.register("weight", {valueAsNumber: true})
TypeWeight ==
    \E x \in PageWeights :
        /\ weight' = x
        /\ errors' = Revalidated("weight", WeightIssue(x))
        /\ UNCHANGED <<gender, age, height, activityLevel, isSubmitted,
                       showResults, calculationResult, call, ret>>

\* form.register("height", {valueAsNumber: true})
TypeHeight ==
    \E x \in PageHeights :
        /\ height' = x
        /\ errors' = Revalidated("height", HeightIssue(x))
        /\ UNCHANGED <<gender, age, weight, activityLevel, isSubmitted,
                       showResults, calculationResult, call, ret>>

\* Select onValueChange: form.setValue("activityLevel", value)
SelectActivityLevel ==
    \E v \in PageActivityLevels :
        /\ activityLevel' = Chars(v)
        /\ UNCHANGED <<gender, age, weight, height, errors, isSubmitted,
                       showResults, calculationResult, call, ret>>

NoCall ==
    [fn |-> "none", gender |-> "", weight |-> NaN, height |-> NaN, age |-> NaN,
     bmr |-> NaN, multiplier |-> NaN, activityLevel |-> <<>>]

Pending == [t |-> "pending"]

\* the page after its first render: defaultValues {gender: "male"}
Init ==
    /\ gender = Str("male")
    /\ age = Empty
    /\ weight = Empty
    /\ height = Empty
    /\ activityLevel = UndefinedChars
    /\ errors = NoErrors
    /\ isSubmitted = FALSE
    /\ showResults = FALSE
    /\ calculationResult = <<>>
    /\ call = NoCall
    /\ ret = Pending

Next ==
    \/ SelectGender
    \/ TypeAge
    \/ TypeWeight
    \/ TypeHeight
    \/ SelectActivityLevel
    \/ Submit
    \/ resetCalculator

Spec == Init /\ [][Next]_vars

-----------------------------------------------------------------------------
(* The functions applied to arguments of their declared types: a call is    *)
(* drawn by the initial state and applied by one action.                    *)

\* the numbers within Margin whole units of a limit of [lo, hi]
NearLimitsUnits(lo, hi) ==
    {Units(n) : n \in (lo - Margin .. lo + Margin) \cup (hi - Margin .. hi + Margin)}

\* the numbers within Margin tenths of a limit of [lo, hi]
NearLimitsTenths(lo, hi) ==
    {Tenths(n) : n \in (10 * lo - Margin .. 10 * lo + Margin)
                          \cup (10 * hi - Margin .. 10 * hi + Margin)}

Alphabet == {"1", "2", "9", ".", "-", " "}

GeneratedStrings == UNION {[1 .. n -> Alphabet] : n \in 0 .. MaxStrLen}

SampleStrings ==
    DOMAIN descriptions \cup DOMAIN ObjectPrototype \cup
    {<<"2", ".", "0">>, <<"0">>, <<"-", "1">>, <<>>, <<"a", "b", "c">>,
     <<"1", ".", "2", "0">>}

\* form data of any shape the resolver can be handed
RawGenders == {Undefined, Str("male"), Str("female"), Str("other"), Str("Male")}
RawAges == NearLimitsUnits(AgeMin, AgeMax) \cup {Units(10), NaN, UndefinedNumber}
RawWeights == NearLimitsTenths(WeightMin, WeightMax) \cup {Units(10), NaN, UndefinedNumber}
RawHeights == NearLimitsUnits(HeightMin, HeightMax) \cup {Units(500), NaN, UndefinedNumber}
RawActivityLevels == {UndefinedChars} \cup {Chars(s) : s \in SampleStrings}

\* arguments of the library functions
ArgGenders == {"male", "female", "other", "Male", ""}
ArgAges == NearLimitsUnits(AgeMin, AgeMax) \cup {Units(25), Units(30), NaN}
ArgWeights == NearLimitsTenths(WeightMin, WeightMax) \cup {Units(60), Units(70), NaN}
ArgHeights ==
    NearLimitsUnits(HeightMin, HeightMax) \cup {Units(122), Units(165), Units(175), NaN}

InRange(x, lo, hi) == x.t = "number" /\ lo * Scale <= x.v /\ x.v <= hi * Scale

\* every BMR the page can compute from the sampled valid inputs, and NaN
ArgBmrs ==
    {calculateBMR(g, w, h, a) :
        g \in {"male", "female"},
        w \in {x \in ArgWeights : InRange(x, WeightMin, WeightMax)},
        h \in {x \in ArgHeights : InRange(x, HeightMin, HeightMax)},
        a \in {x \in ArgAges : InRange(x, AgeMin, AgeMax)}} \cup {NaN}

ArgMultipliers == {parseFloat(s) : s \in SampleStrings}

LibraryCalls ==
    {[NoCall EXCEPT !.fn = "calculateBMR", !.gender = g, !.weight = w,
                    !.height = h, !.age = a] :
        g \in ArgGenders, w \in ArgWeights, h \in ArgHeights, a \in ArgAges}
    \cup
    {[NoCall EXCEPT !.fn = "calculateDailyCalories", !.bmr = b, !.multiplier = m] :
        b \in ArgBmrs, m \in ArgMultipliers}
    \cup
    {[NoCall EXCEPT !.fn = "getActivityDescription", !.activityLevel = s] :
        s \in SampleStrings \cup GeneratedStrings}

CallCalculateBMR ==
    /\ call.fn = "calculateBMR"
    /\ ret.t = "pending"
    /\ ret' = calculateBMR(call.gender, call.weight, call.height, call.age)
    /\ UNCHANGED <<formVars, errors, isSubmitted, showResults, calculationResult, call>>

CallCalculateDailyCalories ==
    /\ call.fn = "calculateDailyCalories"
    /\ ret.t = "pending"
    /\ ret' = calculateDailyCalories(call.bmr, call.multiplier)
    /\ UNCHANGED <<formVars, errors, isSubmitted, showResults, calculationResult, call>>

CallGetActivityDescription ==
    /\ call.fn = "getActivityDescription"
    /\ ret.t = "pending"
    /\ ret' = getActivityDescription(call.activityLevel)
    /\ UNCHANGED <<formVars, errors, isSubmitted, showResults, calculationResult, call>>

InitFn ==
    /\ errors = NoErrors
    /\ isSubmitted = FALSE
    /\ showResults = FALSE
    /\ calculationResult = <<>>
    /\ ret = Pending
    /\ \/ /\ call = [NoCall EXCEPT !.fn = "handleSubmit"]
          /\ gender \in RawGenders
          /\ age \in RawAges
          /\ weight \in RawWeights
          /\ height \in RawHeights
          /\ activityLevel \in RawActivityLevels
       \/ /\ call \in LibraryCalls
          /\ gender = Str("male")
          /\ age = Empty
          /\ weight = Empty
          /\ height = Empty
          /\ activityLevel = UndefinedChars

NextFn ==
    \/ CallCalculateBMR
    \/ CallCalculateDailyCalories
    \/ CallGetActivityDescription
    \/ Submit

SpecFn == InitFn /\ [][NextFn]_vars

-----------------------------------------------------------------------------
(* Two runs of onSubmit on the same inputs: the page as in Spec, with up to *)
(* two successful submits of one form data kept in call and ret, each with  *)
(* whether a result was on display when it started.                         *)

\* the form data whose runs are kept: the two worked examples
ObservedData ==
    {[gender |-> Str("male"), age |-> Units(25), weight |-> Units(70),
      height |-> Units(175), activityLevel |-> Chars(<<"1", ".", "5", "5">>)],
     [gender |-> Str("female"), age |-> Units(30), weight |-> Units(60),
      height |-> Units(165), activityLevel |-> Chars(<<"1", ".", "2">>)]}

\* the form data as the arguments of a kept call
OnSubmitCall ==
    [NoCall EXCEPT !.fn = "onSubmit", !.gender = gender.s, !.age = age,
                   !.weight = weight, !.height = height,
                   !.activityLevel = activityLevel.s]

SubmitObserved ==
    /\ formData \in ObservedData
    /\ handleSubmit
    /\ \/ /\ call.fn = "none"
          /\ call' = OnSubmitCall
          /\ ret' = [t |-> "runs", results |-> calculationResult',
                     shown |-> <<showResults>>]
       \/ /\ call = OnSubmitCall
          /\ Len(ret.results) = 1
          /\ call' = call
          /\ ret' = [t |-> "runs", results |-> ret.results \o calculationResult',
                     shown |-> Append(ret.shown, showResults)]

NextRuns ==
    \/ SelectGender
    \/ TypeAge
    \/ TypeWeight
    \/ TypeHeight
    \/ SelectActivityLevel
    \/ Submit
    \/ SubmitObserved
    \/ resetCalculator

SpecRuns == Init /\ [][NextRuns]_vars

-----------------------------------------------------------------------------
(* Properties *)

Abs(n) == IF n < 0 THEN 0 - n ELSE n

Done(fn) == call.fn = fn /\ ret.t # "pending"

\* the five multipliers of the activity table and their keys
FiveMultipliers == {Num(1200), Num(1375), Num(1550), Num(1725), Num(1900)}

FiveKeys ==
    {<<"1", ".", "2">>, <<"1", ".", "3", "7", "5">>, <<"1", ".", "5", "5">>,
     <<"1", ".", "7", "2", "5">>, <<"1", ".", "9">>}

FiveDescriptions ==
    {"Sedentary lifestyle", "Lightly active", "Moderately active", "Very active",
     "Super active"}

\* r is a whole number nearest to (10 w + 6.25 h - 5 a + k); all compared in
\* quarters of 1/Scale, where 6.25 h is whole
NearestToFormula(r, w, h, a, k) ==
    /\ r.t = "number"
    /\ r.v % Scale = 0
    /\ 2 * Abs(4 * r.v - (40 * w.v + 25 * h.v - 20 * a.v + 4 * k * Scale)) <= 4 * Scale

CallInRange ==
    /\ InRange(call.weight, WeightMin, WeightMax)
    /\ InRange(call.height, HeightMin, HeightMax)
    /\ InRange(call.age, AgeMin, AgeMax)

\* C1: for sex male or female and weight, height and age in their ranges,
\* calculateBMR returns the integer nearest to 10 weight + 6.25 height - 5 age + k,
\* k = 5 for male and -161 for female; male 70/175/25 gives 1674 and
\* female 60/165/30 gives 1320.
C1_BMRIsNearestInteger ==
    Done("calculateBMR") /\ CallInRange =>
        /\ call.gender = "male" =>
              NearestToFormula(ret, call.weight, call.height, call.age, 5)
        /\ call.gender = "female" =>
              NearestToFormula(ret, call.weight, call.height, call.age, 0 - 161)
        /\ (call.gender = "male" /\ call.weight = Units(70) /\ call.height = Units(175)
              /\ call.age = Units(25)) => ret = Units(1674)
        /\ (call.gender = "female" /\ call.weight = Units(60) /\ call.height = Units(165)
              /\ call.age = Units(30)) => ret = Units(1320)

C1_Witness ==
    /\ Done("calculateBMR")
    /\ call.gender = "male"
    /\ call.weight = Units(70) /\ call.height = Units(175) /\ call.age = Units(25)
    /\ ret = Units(1674)

\* C2: for an integer bmr that calculateBMR produces on valid inputs and a
\* multiplier among the five, calculateDailyCalories returns the integer nearest
\* to bmr * multiplier; bmr 1674 with 1.55 gives 2595.
C2_DailyCaloriesIsNearestInteger ==
    (Done("calculateDailyCalories") /\ call.bmr.t = "number"
        /\ call.multiplier \in FiveMultipliers) =>
        /\ ret.t = "number"
        /\ ret.v % Scale = 0
        /\ 2 * Abs(ret.v - (call.bmr.v \div Scale) * call.multiplier.v) <= Scale
        /\ (call.bmr = Units(1674) /\ call.multiplier = Num(1550)) => ret = Units(2595)

C2_Witness ==
    /\ Done("calculateDailyCalories")
    /\ call.bmr = Units(1674)
    /\ call.multiplier = Num(1550)
    /\ ret = Units(2595)

\* C3 as stated: for a sex other than "male" and "female" calculateBMR produces
\* an error and no BMR number.
C3_FailsFastOnUnknownSex ==
    (Done("calculateBMR") /\ call.gender \notin {"male", "female"}) => ret.t = "error"

\* C3 amended: calculateBMR never fails; it applies the male formula exactly
\* when sex is "male" and the female formula (k = -161) for every other value.
C3_UnknownSexUsesFemaleFormula ==
    Done("calculateBMR") =>
        /\ ret.t \in {"number", "nan"}
        /\ ret.t = "nan" <=>
              "nan" \in {call.weight.t, call.height.t, call.age.t}
        /\ ret.t = "number" =>
              NearestToFormula(ret, call.weight, call.height, call.age,
                               IF call.gender = "male" THEN 5 ELSE 0 - 161)

C3_Witness ==
    /\ Done("calculateBMR")
    /\ call.gender = "other"
    /\ call.weight = Units(60) /\ call.height = Units(165) /\ call.age = Units(30)
    /\ ret = Units(1320)

\* C4: for a multiplier that is not one of the five, calculateDailyCalories
\* yields an error outcome and never a calorie number.
C4_UnrecognisedMultiplierIsError ==
    (Done("calculateDailyCalories") /\ call.multiplier \notin FiveMultipliers) =>
        ret.t = "error"

\* C5: getActivityDescription returns one of the five descriptions for exactly
\* the five keys and the sentinel "Unknown activity level" for every other
\* input; it never returns anything but one of these six strings.
C5_DescriptionTableIsClosed ==
    Done("getActivityDescription") =>
        /\ ret.t = "string"
        /\ call.activityLevel \in FiveKeys => ret.s \in FiveDescriptions
        /\ call.activityLevel \notin FiveKeys => ret.s = "Unknown activity level"


FieldsInError == {f \in Fields : errors[f] # ""}

\* x is a number of the closed interval [lo, hi]
Within(x, lo, hi) == x.t = "number" /\ lo * Scale <= x.v /\ x.v <= hi * Scale

\* the submitted value x of a numeric field is accepted exactly when it lies
\* in [lo, hi], and is refused with the message of the limit it violates
RangeChecked(x, issue, lo, hi, tooSmall, tooBig) ==
    x.t = "number" =>
        /\ issue = "" <=> Within(x, lo, hi)
        /\ x.v < lo * Scale => issue = tooSmall
        /\ x.v > hi * Scale => issue = tooBig

\* C6: validation accepts a numeric field exactly when it lies in its closed
\* range (age [16,100], weight [30,300], height [120,250]); a value outside is
\* rejected with the out-of-range error of its field and never clamped: no
\* result is computed from it.
C6_RangesAreClosed ==
    isSubmitted =>
        /\ RangeChecked(age, errors.age, 16, 100,
                        "Age must be at least 16", "Age must be at most 100")
        /\ RangeChecked(weight, errors.weight, 30, 300,
                        "Weight must be at least 30 kg", "Weight must be at most 300 kg")
        /\ RangeChecked(height, errors.height, 120, 250,
                        "Height must be at least 120 cm", "Height must be at most 250 cm")
        /\ calculationResult # <<>> =>
              /\ Within(age, 16, 100)
              /\ Within(weight, 30, 300)
              /\ Within(height, 120, 250)

C6_Witness ==
    /\ isSubmitted
    /\ age = Units(16) /\ errors.age = ""
    /\ weight = Tenths(299) /\ errors.weight = "Weight must be at least 30 kg"
    /\ height = Units(251) /\ errors.height = "Height must be at most 250 cm"
    /\ calculationResult = <<>>

\* the fields of the form data that break the data model: sex one of the two
\* values, the three numbers in their ranges, activity level one of the five
InvalidFields ==
    {f \in Fields :
        \/ f = "gender" /\ ~(gender.t = "string" /\ gender.s \in {"male", "female"})
        \/ f = "age" /\ ~Within(age, 16, 100)
        \/ f = "weight" /\ ~Within(weight, 30, 300)
        \/ f = "height" /\ ~Within(height, 120, 250)
        \/ f = "activityLevel"
             /\ ~(activityLevel.t = "string" /\ activityLevel.s \in FiveKeys)}

\* C7: validation checks every field independently: the fields reported in
\* error are exactly the invalid fields, one error for each.
C7_ErrorsAreExactlyTheInvalidFields ==
    isSubmitted => FieldsInError = InvalidFields

\* C8: whenever validation succeeds and onSubmit runs, the activity level is
\* one of the five values: the stored result never has a multiplier outside
\* the five, a non-numeric dailyCalories or the sentinel description.
C8_ValidatedActivityLevelIsKnown ==
    calculationResult # <<>> =>
        /\ activityLevel.t = "string"
        /\ activityLevel.s \in FiveKeys
        /\ calculationResult[1].activityMultiplier \in FiveMultipliers
        /\ calculationResult[1].dailyCalories.t = "number"
        /\ calculationResult[1].activityDescription.t = "string"
        /\ calculationResult[1].activityDescription.s \in FiveDescriptions

\* C9: validation rejects every sex other than "male" and "female": for such
\* a value onSubmit does not run, so calculateBMR never computes it with the
\* female formula.
C9_UnknownSexIsRejected ==
    /\ (isSubmitted /\ ~(gender.t = "string" /\ gender.s \in {"male", "female"})) =>
          /\ errors.gender # ""
          /\ calculationResult = <<>>
    /\ calculationResult # <<>> =>
          /\ gender.t = "string"
          /\ gender.s \in {"male", "female"}
          /\ calculationResult[1].formula
                = "BMR = (10 x weight) + (6.25 x height) - (5 x age) - 161"
             <=> gender.s = "female"

C9_Witness ==
    /\ isSubmitted
    /\ gender = Str("other")
    /\ age = Units(16) /\ weight = Units(30) /\ height = Units(120)
    /\ activityLevel = Chars(<<"1", ".", "2">>)
    /\ FieldsInError = {"gender"}
    /\ calculationResult = <<>>

\* C10: the page never displays a calculation result while a validation error
\* exists.
C10_NoResultWhileErrors ==
    FieldsInError # {} => ~ResultsShown


\* r is e / q rounded half up, e counting q-ths of a unit: on a tie the
\* integer above, otherwise the one nearest integer
RoundedHalfUp(r, e, q) ==
    /\ r.t = "number"
    /\ r.v % Scale = 0
    /\ IF (2 * e) % (2 * q) = q
       THEN 2 * q * (r.v \div Scale) = 2 * e + q
       ELSE 2 * Abs(q * (r.v \div Scale) - e) < q

\* the unrounded BMR of the call in quarters of 1/Scale
CallBmrQuarters ==
    40 * call.weight.v + 25 * call.height.v - 20 * call.age.v
      + 4 * Scale * (IF call.gender = "male" THEN 5 ELSE 0 - 161)

\* the unrounded bmr * multiplier of the call in units of 1/Scale, bmr whole
CallProduct == (call.bmr.v \div Scale) * call.multiplier.v

\* C12: both rounding steps round half up: when the unrounded BMR (or
\* bmr * multiplier) has fractional part exactly .5 the result is the next
\* integer above it, otherwise the nearest integer; male 30/122/16 is 987.5
\* and gives 988.
C12_RoundsHalfUp ==
    /\ (Done("calculateBMR") /\ call.weight.t = "number" /\ call.height.t = "number"
          /\ call.age.t = "number") =>
          /\ RoundedHalfUp(ret, CallBmrQuarters, 4 * Scale)
          /\ (call.gender = "male" /\ call.weight = Units(30) /\ call.height = Units(122)
                /\ call.age = Units(16)) => ret = Units(988)
    /\ (Done("calculateDailyCalories") /\ call.bmr.t = "number"
          /\ call.bmr.v % Scale = 0 /\ call.multiplier.t = "number") =>
          RoundedHalfUp(ret, CallProduct, Scale)

\* a tie of calculateBMR whose lower neighbour is even: 301 + 762.5 - 80 + 5
C12_Witness ==
    /\ Done("calculateBMR")
    /\ call.gender = "male"
    /\ call.weight = Tenths(301) /\ call.height = Units(122) /\ call.age = Units(16)
    /\ CallBmrQuarters % (4 * Scale) = 2 * Scale
    /\ ret = Units(989)


\* C13: showResults is true exactly when calculationResult is non-null; a
\* successful submit sets both, resetCalculator clears both and restores
\* gender to "male", and a failed submit changes neither.
C13_ShowResultsIffResult ==
    /\ [](showResults <=> calculationResult # <<>>)
    /\ [][/\ (Submit /\ calorieFormSchema(formData) = NoErrors) =>
                (showResults' /\ calculationResult' # <<>>)
          /\ (Submit /\ calorieFormSchema(formData) # NoErrors) =>
                UNCHANGED <<showResults, calculationResult>>
          /\ resetCalculator =>
                (~showResults' /\ calculationResult' = <<>> /\ gender' = Str("male"))]_vars

\* a result is on display and the form has been submitted with an invalid age
C13_Witness ==
    /\ showResults
    /\ calculationResult # <<>>
    /\ isSubmitted
    /\ age = Units(10)
    /\ errors.age = "Age must be at least 16"
    /\ gender = Str("female")


\* C11: two runs of onSubmit on identical valid inputs, started from any two
\* reachable states of the page, produce identical results in all five
\* fields (bmr, dailyCalories, activityMultiplier, activityDescription,
\* formula).
C11_SameInputsSameResult ==
    (call.fn = "onSubmit" /\ Len(ret.results) = 2) =>
        /\ ret.results[1].bmr = ret.results[2].bmr
        /\ ret.results[1].dailyCalories = ret.results[2].dailyCalories
        /\ ret.results[1].activityMultiplier = ret.results[2].activityMultiplier
        /\ ret.results[1].activityDescription = ret.results[2].activityDescription
        /\ ret.results[1].formula = ret.results[2].formula

\* the first run started from the fresh page, the second while a result was
\* on display
C11_Witness ==
    /\ call.fn = "onSubmit"
    /\ Len(ret.results) = 2
    /\ ret.shown = <<FALSE, TRUE>>
    /\ ret.results[2].bmr = Units(1674)
    /\ ret.results[2].dailyCalories = Units(2595)

====
